---------------------------- MODULE Spec2Model ----------------------------
(***************************************************************************)
(* A model of static_code_analyzer.py: the line scanner (S001-S009), the   *)
(* structural scanner (S010-S012) and main's aggregation and ordering.     *)
(*                                                                         *)
(* Text is modelled at character level: a Python str is a sequence of      *)
(* one-character strings, so that stripping, regular-expression matching,  *)
(* comment splitting and string comparison are computed, not assumed.      *)
(***************************************************************************)
EXTENDS Integers, Sequences, FiniteSets, TLC

(***************************************************************************)
(* Characters and str operations                                           *)
(***************************************************************************)

\* The characters of the model's texts, in code-point order.
Ascii ==
    <<"\t", "\n", " ", "\"", "#", "'", "(", ")", "*", ",", ".", "/",
      "0", "1", "2", "3", "4", "5", "6", "7", "8", "9", ":", ";", "=",
      "A", "B", "C", "D", "E", "F", "G", "H", "I", "J", "K", "L", "M",
      "N", "O", "P", "Q", "R", "S", "T", "U", "V", "W", "X", "Y", "Z",
      "[", "]", "_",
      "a", "b", "c", "d", "e", "f", "g", "h", "i", "j", "k", "l", "m",
      "n", "o", "p", "q", "r", "s", "t", "u", "v", "w", "x", "y", "z",
      "{", "}">>

\* ord(c), up to an order-preserving renumbering.
ord(c) == CHOOSE i \in DOMAIN Ascii : Ascii[i] = c

Upper ==
    {"A", "B", "C", "D", "E", "F", "G", "H", "I", "J", "K", "L", "M",
     "N", "O", "P", "Q", "R", "S", "T", "U", "V", "W", "X", "Y", "Z"}

Lower ==
    {"a", "b", "c", "d", "e", "f", "g", "h", "i", "j", "k", "l", "m",
     "n", "o", "p", "q", "r", "s", "t", "u", "v", "w", "x", "y", "z"}

Digit == {"0", "1", "2", "3", "4", "5", "6", "7", "8", "9"}

\* What str.strip() removes and what \s matches.
Whitespace == {" ", "\t", "\n"}

\* str.lower() of one character.
lower(c) ==
    IF c \in Upper
    THEN Ascii[ord(c) + (ord("a") - ord("A"))]
    ELSE c

\* The length of the longest prefix of s made of characters of cs.
LeadingRun(s, cs) ==
    CHOOSE k \in 0..Len(s) :
        /\ \A i \in 1..k : s[i] \in cs
        /\ k = Len(s) \/ s[k + 1] \notin cs

\* The length of the longest suffix of s made of characters of cs.
TrailingRun(s, cs) ==
    CHOOSE k \in 0..Len(s) :
        /\ \A i \in (Len(s) - k + 1)..Len(s) : s[i] \in cs
        /\ k = Len(s) \/ s[Len(s) - k] \notin cs

\* s.lstrip(chars), s.rstrip(chars) and s.strip().
lstrip(s, cs) == SubSeq(s, LeadingRun(s, cs) + 1, Len(s))

rstrip(s, cs) == SubSeq(s, 1, Len(s) - TrailingRun(s, cs))

strip(s) == lstrip(rstrip(s, Whitespace), Whitespace)

\* s.endswith(suffix).
endswith(s, suffix) ==
    /\ Len(suffix) <= Len(s)
    /\ SubSeq(s, Len(s) - Len(suffix) + 1, Len(s)) = suffix

\* s < t for two str: the first differing character decides, a proper
\* prefix is smaller.
StrLess(s, t) ==
    LET m == IF Len(s) < Len(t) THEN Len(s) ELSE Len(t)
        n == CHOOSE k \in 0..m :
                /\ \A i \in 1..k : s[i] = t[i]
                /\ k = m \/ s[k + 1] # t[k + 1]
    IN  IF n = m THEN Len(s) < Len(t) ELSE ord(s[n + 1]) < ord(t[n + 1])

\* sorted(seq), given lt[i][j] = (seq[i] < seq[j]): element i goes after every
\* smaller element and after every earlier element that is not greater (the
\* sort is stable).
StableSort(seq, lt) ==
    LET rank(i) == 1 + Cardinality({j \in DOMAIN seq :
                        lt[j][i] \/ (~lt[i][j] /\ j < i)})
    IN  [k \in DOMAIN seq |-> seq[CHOOSE i \in DOMAIN seq : rank(i) = k]]

(***************************************************************************)
(* The rule catalog                                                        *)
(***************************************************************************)

MAX_LINE_LENGTH == 79

S001 == <<"S","0","0","1">>
S002 == <<"S","0","0","2">>
S003 == <<"S","0","0","3">>
S004 == <<"S","0","0","4">>
S005 == <<"S","0","0","5">>
S006 == <<"S","0","0","6">>
S007 == <<"S","0","0","7">>
S008 == <<"S","0","0","8">>
S009 == <<"S","0","0","9">>
S010 == <<"S","0","1","0">>
S011 == <<"S","0","1","1">>
S012 == <<"S","0","1","2">>

\* A message template: the text before its {field}, the field's name ("" when
\* the template has none) and the text after it.
Template(pre, field, post) == [pre |-> pre, field |-> field, post |-> post]

MESSAGES(code) ==
    CASE code = S001 -> Template(<<"T","o","o"," ","l","o","n","g"," ","l","i","n","e">>, "", <<>>)
      [] code = S002 -> Template(<<"I","n","d","e","n","t","a","t","i","o","n"," ","i","s"," ","n","o","t"," ","a"," ","m","u","l","t","i","p","l","e"," ","o","f"," ","f","o","u","r">>, "", <<>>)
      [] code = S003 -> Template(<<"U","n","n","e","c","e","s","s","a","r","y"," ","s","e","m","i","c","o","l","o","n">>, "", <<>>)
      [] code = S004 -> Template(<<"A","t"," ","l","e","a","s","t"," ","t","w","o"," ","s","p","a","c","e","s"," ","r","e","q","u","i","r","e","d"," ","b","e","f","o","r","e"," ","i","n","l","i","n","e"," ","c","o","m","m","e","n","t","s">>, "", <<>>)
      [] code = S005 -> Template(<<"T","O","D","O"," ","f","o","u","n","d">>, "", <<>>)
      [] code = S006 -> Template(<<"M","o","r","e"," ","t","h","a","n"," ","t","w","o"," ","b","l","a","n","k"," ","l","i","n","e","s"," ","u","s","e","d"," ","b","e","f","o","r","e"," ","t","h","i","s"," ","l","i","n","e">>, "", <<>>)
      [] code = S007 -> Template(<<"T","o","o"," ","m","a","n","y"," ","s","p","a","c","e","s"," ","a","f","t","e","r"," ","'">>, "kw", <<"'">>)
      [] code = S008 -> Template(<<"C","l","a","s","s"," ","n","a","m","e"," ","'">>, "name", <<"'"," ","s","h","o","u","l","d"," ","u","s","e"," ","C","a","m","e","l","C","a","s","e">>)
      [] code = S009 -> Template(<<"F","u","n","c","t","i","o","n"," ","n","a","m","e"," ","'">>, "name", <<"'"," ","s","h","o","u","l","d"," ","u","s","e"," ","s","n","a","k","e","_","c","a","s","e">>)
      [] code = S010 -> Template(<<"A","r","g","u","m","e","n","t"," ","n","a","m","e"," ","'">>, "name", <<"'"," ","s","h","o","u","l","d"," ","u","s","e"," ","s","n","a","k","e","_","c","a","s","e">>)
      [] code = S011 -> Template(<<"V","a","r","i","a","b","l","e"," ","'">>, "name", <<"'"," ","i","n"," ","f","u","n","c","t","i","o","n"," ","s","h","o","u","l","d"," ","u","s","e"," ","s","n","a","k","e","_","c","a","s","e">>)
      [] code = S012 -> Template(<<"D","e","f","a","u","l","t"," ","a","r","g","u","m","e","n","t"," ","v","a","l","u","e"," ","i","s"," ","m","u","t","a","b","l","e">>, "", <<>>)

\* The keyword arguments of str.format: none, or one field and its value.
NoFmt == [field |-> "", value |-> <<>>]

Fmt(field, value) == [field |-> field, value |-> value]

\* template.format(**fmt) if fmt else template
format(template, fmt) ==
    IF fmt = NoFmt \/ template.field = ""
    THEN template.pre \o template.post
    ELSE template.pre \o fmt.value \o template.post

ReportItem(file_path, line_number, code, message) ==
    [file_path |-> file_path, line_number |-> line_number,
     code |-> code, message |-> message]

\* a < b for two ReportItem (dataclass order=True): the tuples of fields
\* compared lexicographically.
ItemLess(a, b) ==
    IF a.file_path # b.file_path THEN StrLess(a.file_path, b.file_path)
    ELSE IF a.line_number # b.line_number THEN a.line_number < b.line_number
    ELSE IF a.code # b.code THEN StrLess(a.code, b.code)
    ELSE StrLess(a.message, b.message)

(***************************************************************************)
(* Naming classifiers                                                      *)
(***************************************************************************)

IdentStart == Upper \cup Lower \cup {"_"}

IdentChar == Upper \cup Lower \cup Digit \cup {"_"}

\* re.fullmatch(r"[A-Z][a-zA-Z0-9]*", name)
is_camel_case(name) ==
    /\ Len(name) >= 1
    /\ name[1] \in Upper
    /\ \A i \in 2..Len(name) : name[i] \in Lower \cup Upper \cup Digit

\* A faulty is_snake_case, which takes letters of either case.
is_snake_case_any_case(name) ==
    \E i \in 1..Len(name) : \E j \in i..Len(name) :
        /\ \A k \in 1..(i - 1) : name[k] = "_"
        /\ name[i] \in Lower \cup Upper
        /\ \A k \in (i + 1)..j : name[k] \in Lower \cup Upper \cup Digit \cup {"_"}
        /\ \A k \in (j + 1)..Len(name) : name[k] = "_"

\* re.fullmatch(r"_*[a-z][a-z0-9_]*_*", name): some split of the name into
\* underscores, one lowercase letter, a core and underscores.
is_snake_case(name) ==
    \E i \in 1..Len(name) : \E j \in i..Len(name) :
        /\ \A k \in 1..(i - 1) : name[k] = "_"
        /\ name[i] \in Lower
        /\ \A k \in (i + 1)..j : name[k] \in Lower \cup Digit \cup {"_"}
        /\ \A k \in (j + 1)..Len(name) : name[k] = "_"

(***************************************************************************)
(* The comment splitter                                                    *)
(***************************************************************************)

\* Python's None.
None == [type |-> "None"]

\* The first index of s at or after i whose character is in cs; 0 when none.
FirstIndex(s, i, cs) ==
    IF \E j \in i..Len(s) : s[j] \in cs
    THEN CHOOSE j \in i..Len(s) :
            s[j] \in cs /\ \A k \in i..(j - 1) : s[k] \notin cs
    ELSE 0

\* tokenize.generate_tokens over one line, read up to its first COMMENT token:
\* the 0-based column of that token, or -1 when the line has none.  From
\* index i the scan runs to the next "#" or quote; a quote opens a STRING
\* token that runs to the same quote, so a "#" inside it is no comment.  A
\* quote that is not closed on the line ends the scan with
\* tokenize.TokenError (an unterminated literal), which the caller answers
\* like "no comment"; an open bracket raises only at the end of the line,
\* after the COMMENT token was produced.
RECURSIVE comment_token_col(_, _)
comment_token_col(line, i) ==
    LET j == FirstIndex(line, i, {"#", "'", "\""})
        k == FirstIndex(line, j + 1, {line[j]})
    IN  IF j = 0 THEN -1
        ELSE IF line[j] = "#" THEN j - 1
        ELSE IF k = 0 THEN -1
        ELSE comment_token_col(line, k + 1)

\* Returns (code_part, comment_part, comment_col).
split_code_and_comment(line) ==
    LET col == comment_token_col(line, 1)
    IN  IF col # -1
        THEN [code_part    |-> rstrip(SubSeq(line, 1, col), {"\n"}),
              comment_part |-> rstrip(SubSeq(line, col + 1, Len(line)), {"\n"}),
              comment_col  |-> col]
        ELSE [code_part    |-> rstrip(line, {"\n"}),
              comment_part |-> <<>>,
              comment_col  |-> -1]

(***************************************************************************)
(* The line rule set                                                       *)
(***************************************************************************)

check_s001(raw_line) ==
    IF Len(rstrip(raw_line, {"\n"})) > MAX_LINE_LENGTH THEN S001 ELSE None

check_s002(raw_line) ==
    IF strip(raw_line) = <<>> THEN None
    ELSE LET leading_spaces == Len(raw_line) - Len(lstrip(raw_line, {" "}))
         IN  IF leading_spaces % 4 # 0 THEN S002 ELSE None

check_s003(code_part) ==
    IF endswith(rstrip(code_part, Whitespace), <<";">>) THEN S003 ELSE None

check_s004(code_part, comment_col) ==
    IF comment_col = -1 THEN None
    ELSE IF strip(code_part) = <<>> THEN None
    ELSE IF ~endswith(code_part, <<" "," ">>) THEN S004
    ELSE None

\* RE_TODO.search(comment_part): "todo" somewhere, in any letter case.
RE_TODO_search(text) ==
    \E i \in 1..(Len(text) - 3) :
        [k \in 1..4 |-> lower(text[i + k - 1])] = <<"t","o","d","o">>

check_s005(comment_part) ==
    IF comment_part # <<>> /\ RE_TODO_search(comment_part) THEN S005 ELSE None

\* A faulty check_s006, which fires from two blank lines on.
check_s006_from_two(blank_lines_before, raw_line) ==
    IF strip(raw_line) # <<>> /\ blank_lines_before >= 2 THEN S006 ELSE None

check_s006(blank_lines_before, raw_line) ==
    IF strip(raw_line) # <<>> /\ blank_lines_before > 2 THEN S006 ELSE None

\* RE_CLASS.match / RE_DEF.match: ^(\s*)kw(\s+)([A-Za-z_][A-Za-z0-9_]*).
\* Whitespace, the keyword and the identifier cannot overlap, so the greedy
\* match is the only one.  Gives the match's groups 2 and 3, or None.
RE_HEADER_match(kw, raw_line) ==
    LET after_ws == lstrip(raw_line, Whitespace)
        after_kw == SubSeq(after_ws, Len(kw) + 1, Len(after_ws))
        spaces   == SubSeq(after_kw, 1, LeadingRun(after_kw, Whitespace))
        rest     == SubSeq(after_kw, Len(spaces) + 1, Len(after_kw))
    IN  IF /\ Len(after_ws) >= Len(kw)
           /\ SubSeq(after_ws, 1, Len(kw)) = kw
           /\ Len(spaces) >= 1
           /\ Len(rest) >= 1
           /\ rest[1] \in IdentStart
        THEN [spaces |-> spaces,
              name   |-> SubSeq(rest, 1, LeadingRun(rest, IdentChar))]
        ELSE None

RE_CLASS_match(raw_line) == RE_HEADER_match(<<"c","l","a","s","s">>, raw_line)

RE_DEF_match(raw_line) == RE_HEADER_match(<<"d","e","f">>, raw_line)

\* One (code, format_kwargs) pair.
Issue(code, fmt) == [code |-> code, fmt |-> fmt]

\* Returns the list of (code, format_kwargs) for S007/S008/S009 on this line.
check_s007_s008_s009(raw_line) ==
    LET m_class == RE_CLASS_match(raw_line)
        m_def   == RE_DEF_match(raw_line)
    IN  IF m_class # None THEN
            (IF Len(m_class.spaces) > 1
             THEN <<Issue(S007, Fmt("kw", <<"c","l","a","s","s">>))>> ELSE <<>>)
            \o (IF ~is_camel_case(m_class.name)
                THEN <<Issue(S008, Fmt("name", m_class.name))>> ELSE <<>>)
        ELSE IF m_def # None THEN
            (IF Len(m_def.spaces) > 1
             THEN <<Issue(S007, Fmt("kw", <<"d","e","f">>))>> ELSE <<>>)
            \o (IF ~is_snake_case(m_def.name)
                THEN <<Issue(S009, Fmt("name", m_def.name))>> ELSE <<>>)
        ELSE <<>>

\* uniq.setdefault(code, kwargs) over found: the first pair of every code, in
\* the order of first appearance.
uniq_items(found) ==
    LET keep == {i \in DOMAIN found :
                    \A j \in 1..(i - 1) : found[j].code # found[i].code}
        Kept(i) == i \in keep
        index == SelectSeq([i \in DOMAIN found |-> i], Kept)
    IN  [k \in DOMAIN index |-> found[index[k]]]

IssueLess(a, b) == StrLess(a.code, b.code)

\* A faulty sorted_by_code, which leaves the pairs in the order found.
unsorted_by_code(issues) == issues

\* sorted(uniq.items(), key=lambda x: x[0])
sorted_by_code(issues) ==
    StableSort(issues, [i \in DOMAIN issues |->
                          [j \in DOMAIN issues |-> IssueLess(issues[i], issues[j])]])

IsCode(c) == c # None

NoFmtIssue(code) == Issue(code, NoFmt)

find_issues_for_line(raw_line, blank_lines_before) ==
    LET parts  == split_code_and_comment(raw_line)
        codes  == <<check_s001(raw_line),
                    check_s002(raw_line),
                    check_s006(blank_lines_before, raw_line),
                    check_s003(parts.code_part),
                    check_s004(parts.code_part, parts.comment_col),
                    check_s005(parts.comment_part)>>
        simple == SelectSeq(codes, IsCode)
        found  == [i \in DOMAIN simple |-> NoFmtIssue(simple[i])]
                  \o check_s007_s008_s009(raw_line)
    IN  sorted_by_code(uniq_items(found))

(***************************************************************************)
(* Syntax trees (the ast module's node classes, as records)                *)
(***************************************************************************)

Store == [type |-> "Store"]

Load == [type |-> "Load"]

Name(id) == [type |-> "Name", id |-> id, ctx |-> Store]

NameLoad(id) == [type |-> "Name", id |-> id, ctx |-> Load]

Starred(value) == [type |-> "Starred", value |-> value, ctx |-> Store]

Attribute(value, attr) ==
    [type |-> "Attribute", value |-> value, attr |-> attr, ctx |-> Store]

TupleNode(elts) == [type |-> "Tuple", elts |-> elts, ctx |-> Store]

ListNode(elts) == [type |-> "List", elts |-> elts, ctx |-> Store]

\* A list display read as a value.
ListLoad(elts) == [type |-> "List", elts |-> elts, ctx |-> Load]

DictNode == [type |-> "Dict"]

SetNode(elts) == [type |-> "Set", elts |-> elts]

Constant == [type |-> "Constant"]

arg(name) == [type |-> "arg", arg |-> name]

arguments(posonlyargs, args, vararg, kwonlyargs, kw_defaults, kwarg, defaults) ==
    [type |-> "arguments", posonlyargs |-> posonlyargs, args |-> args,
     vararg |-> vararg, kwonlyargs |-> kwonlyargs,
     kw_defaults |-> kw_defaults, kwarg |-> kwarg, defaults |-> defaults]

\* def name(a, b, ...): only plain positional parameters, no defaults.
plain_arguments(names) ==
    arguments(<<>>, [i \in DOMAIN names |-> arg(names[i])], None,
              <<>>, <<>>, None, <<>>)

FunctionDef(name, args, body, lineno) ==
    [type |-> "FunctionDef", name |-> name, args |-> args, body |-> body,
     lineno |-> lineno]

AsyncFunctionDef(name, args, body, lineno) ==
    [type |-> "AsyncFunctionDef", name |-> name, args |-> args,
     body |-> body, lineno |-> lineno]

ClassDef(name, bases, body, lineno) ==
    [type |-> "ClassDef", name |-> name, bases |-> bases, body |-> body,
     lineno |-> lineno]

Lambda(args, body) == [type |-> "Lambda", args |-> args, body |-> body]

If(test, body, orelse, lineno) ==
    [type |-> "If", test |-> test, body |-> body, orelse |-> orelse,
     lineno |-> lineno]

Assign(targets, value, lineno) ==
    [type |-> "Assign", targets |-> targets, value |-> value,
     lineno |-> lineno]

AnnAssign(target, annotation, value, lineno) ==
    [type |-> "AnnAssign", target |-> target, annotation |-> annotation,
     value |-> value, lineno |-> lineno]

AugAssign(target, value, lineno) ==
    [type |-> "AugAssign", target |-> target, op |-> [type |-> "Add"],
     value |-> value, lineno |-> lineno]

Pass(lineno) == [type |-> "Pass", lineno |-> lineno]

Module(body) == [type |-> "Module", body |-> body]

\* A field's value as a list of nodes: None is no node.
Opt(node) == IF node = None THEN <<>> ELSE <<node>>

IsNode(v) == v # None

\* list(ast.iter_child_nodes(node)): the nodes in the node's fields, in the
\* order of _fields (decorators, return and parameter annotations and
\* type comments are absent from the model's trees).
iter_child_nodes(node) ==
    CASE node.type = "Module" -> node.body
      [] node.type \in {"FunctionDef", "AsyncFunctionDef"} ->
            <<node.args>> \o node.body
      [] node.type = "arguments" ->
            node.posonlyargs \o node.args \o Opt(node.vararg)
            \o node.kwonlyargs \o SelectSeq(node.kw_defaults, IsNode)
            \o Opt(node.kwarg) \o node.defaults
      [] node.type = "ClassDef" -> node.bases \o node.body
      [] node.type = "Lambda" -> <<node.args, node.body>>
      [] node.type = "If" -> <<node.test>> \o node.body \o node.orelse
      [] node.type = "Assign" -> node.targets \o <<node.value>>
      [] node.type = "AnnAssign" ->
            <<node.target, node.annotation>> \o Opt(node.value)
      [] node.type = "AugAssign" -> <<node.target, node.op, node.value>>
      [] node.type = "Name" -> <<node.ctx>>
      [] node.type \in {"Starred", "Attribute"} -> <<node.value, node.ctx>>
      [] node.type \in {"Tuple", "List"} -> node.elts \o <<node.ctx>>
      [] node.type = "Set" -> node.elts
      [] OTHER -> <<>>

(***************************************************************************)
(* The structural rule set                                                 *)
(***************************************************************************)

RECURSIVE extract_assigned_names(_)
RECURSIVE extract_names_of_elts(_, _)

\* for elt in target.elts: names.extend(extract_assigned_names(elt)), from the
\* i-th element on.
extract_names_of_elts(elts, i) ==
    IF i > Len(elts) THEN <<>>
    ELSE extract_assigned_names(elts[i]) \o extract_names_of_elts(elts, i + 1)

extract_assigned_names(target) ==
    IF target.type = "Name" THEN <<target.id>>
    ELSE IF target.type \in {"Tuple", "List"}
    THEN extract_names_of_elts(target.elts, 1)
    ELSE <<>>

skip_types == {"FunctionDef", "AsyncFunctionDef", "ClassDef", "Lambda"}

NotSkipped(child) == child.type \notin skip_types

reversed(seq) == [i \in DOMAIN seq |-> seq[Len(seq) + 1 - i]]

\* The while loop of walk_without_nested_scopes: pop the stack's last node,
\* yield it, push its children that are no scope.  yielded collects the nodes
\* in the order they are yielded.
RECURSIVE walk_stack(_, _)
walk_stack(stack, yielded) ==
    IF stack = <<>> THEN yielded
    ELSE LET node == stack[Len(stack)]
             rest == SubSeq(stack, 1, Len(stack) - 1)
         IN  walk_stack(rest \o SelectSeq(iter_child_nodes(node), NotSkipped),
                        yielded \o <<node>>)

walk_without_nested_scopes(nodes) == walk_stack(reversed(nodes), <<>>)

\* The concatenation of a list of lists.
RECURSIVE Flatten(_)
Flatten(seqs) ==
    IF seqs = <<>> THEN <<>> ELSE Head(seqs) \o Flatten(Tail(seqs))

function_types == {"FunctionDef", "AsyncFunctionDef"}

\* The arg_names list built for one definition.
arg_names_of(node) ==
    LET names(args) == [i \in DOMAIN args |-> args[i].arg]
    IN  names(node.args.posonlyargs) \o names(node.args.args)
        \o names(node.args.kwonlyargs)
        \o (IF node.args.vararg # None THEN <<node.args.vararg.arg>> ELSE <<>>)
        \o (IF node.args.kwarg # None THEN <<node.args.kwarg.arg>> ELSE <<>>)

NotSnake(name) == ~is_snake_case(name)

\* The S010 findings of one definition: one per parameter whose name fails
\* the snake check.
s010_items(file_path, node) ==
    LET bad == SelectSeq(arg_names_of(node), NotSnake)
    IN  [i \in DOMAIN bad |->
            ReportItem(file_path, node.lineno, S010,
                       format(MESSAGES(S010), Fmt("name", bad[i])))]

mutable_types == {"List", "Dict", "Set"}

\* A faulty s012_items, which gives one finding per mutable default.
s012_items_per_default(file_path, node) ==
    LET defaults == node.args.defaults \o node.args.kw_defaults
        IsMutable(d) == d.type \in mutable_types
        mutable == SelectSeq(defaults, IsMutable)
    IN  [i \in DOMAIN mutable |->
            ReportItem(file_path, node.lineno, S012,
                       format(MESSAGES(S012), NoFmt))]

\* The S012 findings of one definition: the loop over the defaults stops at
\* the first mutable literal and one item is appended.
s012_items(file_path, node) ==
    LET defaults == node.args.defaults \o node.args.kw_defaults
        mutable_default ==
            \E i \in DOMAIN defaults : defaults[i].type \in mutable_types
    IN  IF mutable_default
        THEN <<ReportItem(file_path, node.lineno, S012,
                          format(MESSAGES(S012), NoFmt))>>
        ELSE <<>>

\* The targets the body loop takes from one yielded node; no targets when the
\* node is no assignment.
targets_of(inner) ==
    CASE inner.type = "Assign" -> inner.targets
      [] inner.type = "AnnAssign" -> <<inner.target>>
      [] inner.type = "AugAssign" -> <<inner.target>>
      [] OTHER -> <<>>

\* The S011 findings one yielded node adds.
s011_items_of(file_path, inner) ==
    LET targets == targets_of(inner)
        names == Flatten([i \in DOMAIN targets |->
                            extract_assigned_names(targets[i])])
        bad == SelectSeq(names, NotSnake)
    IN  [i \in DOMAIN bad |->
            ReportItem(file_path, inner.lineno, S011,
                       format(MESSAGES(S011), Fmt("name", bad[i])))]

\* The S011 findings of one definition: the loop over
\* walk_without_nested_scopes(node.body).
s011_items(file_path, node) ==
    LET walked == walk_without_nested_scopes(node.body)
    IN  Flatten([i \in DOMAIN walked |-> s011_items_of(file_path, walked[i])])

\* What one iteration of the loop over ast.walk(tree) appends to items.
items_of_node(file_path, node) ==
    IF node.type \notin function_types THEN <<>>
    ELSE s010_items(file_path, node) \o s012_items(file_path, node)
         \o s011_items(file_path, node)

(***************************************************************************)
(* ast.parse, for the subset of Python the model's files are written in:   *)
(* one statement per physical line; "pass"; "name = value" and             *)
(* "name, name = value" with a number, a name or a one-line string as the  *)
(* value and an optional closing ";"; "def name(params):" and              *)
(* "class Name:" / "class Name(Base):" headers followed by an indented     *)
(* block; blank lines and comments.  Every other line is a syntax error,   *)
(* which is what Python answers for the lines of the model's files that    *)
(* fall outside the subset.                                                *)
(***************************************************************************)

\* What ast.parse raises instead of returning a tree.
SyntaxError == [type |-> "SyntaxError"]

Keywords ==
    {<<"d","e","f">>, <<"c","l","a","s","s">>, <<"p","a","s","s">>, <<"i","f">>, <<"i","n">>, <<"i","s">>, <<"o","r">>, <<"a","s">>,
     <<"f","o","r">>, <<"n","o","t">>, <<"a","n","d">>}

\* A NAME token that is no keyword.
IsIdentifier(s) ==
    /\ Len(s) >= 1
    /\ s[1] \in IdentStart
    /\ \A i \in 2..Len(s) : s[i] \in IdentChar
    /\ s \notin Keywords

\* The expressions of the subset: a decimal number, a name, a string literal
\* closed on the line.
IsValue(s) ==
    \/ /\ Len(s) >= 1
       /\ \A i \in 1..Len(s) : s[i] \in Digit
       /\ Len(s) = 1 \/ s[1] # "0"
    \/ IsIdentifier(s)
    \/ /\ Len(s) >= 2
       /\ s[1] \in {"'", "\""}
       /\ s[Len(s)] = s[1]
       /\ \A i \in 2..(Len(s) - 1) : s[i] # s[1]

\* s.split(c), every piece stripped.
split_strip(s, c) ==
    LET IsCut(i) == s[i] = c
        cuts == <<0>> \o SelectSeq([i \in DOMAIN s |-> i], IsCut)
                \o <<Len(s) + 1>>
    IN  [k \in 1..(Len(cuts) - 1) |->
            strip(SubSeq(s, cuts[k] + 1, cuts[k + 1] - 1))]

\* The column a line's indentation ends at, as the tokenizer counts it: a tab
\* moves to the next multiple of the tab size.
RECURSIVE indent_col(_, _, _)
indent_col(line, i, col) ==
    IF i > Len(line) THEN col
    ELSE IF line[i] = " " THEN indent_col(line, i + 1, col + 1)
    ELSE IF line[i] = "\t" THEN indent_col(line, i + 1, (col \div 8 + 1) * 8)
    ELSE col

\* The text of a line without comment and surrounding whitespace.
statement_text(line) == strip(split_code_and_comment(line).code_part)

HasStatement(line) == statement_text(line) # <<>>

\* The lines that hold a statement, each with its line number, its
\* indentation and its text.
logical_lines(lines) ==
    LET HasCode(i) == HasStatement(lines[i])
        index == SelectSeq([i \in DOMAIN lines |-> i], HasCode)
    IN  [k \in DOMAIN index |->
            [lineno |-> index[k],
             indent |-> indent_col(lines[index[k]], 1, 0),
             text   |-> statement_text(lines[index[k]])]]

\* The node of "targets = value", or SyntaxError.
assignment(targets, value, lineno) ==
    IF /\ \A i \in DOMAIN targets : IsIdentifier(targets[i])
       /\ IsValue(value)
    THEN Assign(<<IF Len(targets) = 1
                  THEN Name(targets[1])
                  ELSE TupleNode([i \in DOMAIN targets |-> Name(targets[i])])>>,
                IF IsIdentifier(value) THEN NameLoad(value) ELSE Constant,
                lineno)
    ELSE SyntaxError

\* A simple statement without its closing ";": the node, or SyntaxError.
simple_statement(stmt, eq, lineno) ==
    IF stmt = <<"p","a","s","s">> THEN Pass(lineno)
    ELSE IF eq > 1
    THEN assignment(split_strip(SubSeq(stmt, 1, eq - 1), ","),
                    strip(SubSeq(stmt, eq + 1, Len(stmt))), lineno)
    ELSE SyntaxError

first_equals(stmt, lineno) ==
    simple_statement(stmt, FirstIndex(stmt, 1, {"="}), lineno)

\* A simple statement: the node, or SyntaxError.
parse_simple(text, lineno) ==
    IF endswith(text, <<";">>)
    THEN first_equals(rstrip(SubSeq(text, 1, Len(text) - 1), Whitespace), lineno)
    ELSE first_equals(text, lineno)

\* "(params):" with tail the text after the header's name and params what is
\* between the parentheses, split at the commas.
parenthesised(tail, params) ==
    /\ Len(tail) >= 3
    /\ tail[1] = "("
    /\ tail[Len(tail)] = ":"
    /\ endswith(rstrip(SubSeq(tail, 1, Len(tail) - 1), Whitespace), <<")">>)
    /\ \A i \in DOMAIN params : IsIdentifier(params[i])

\* A header of the given kind and name: [kind, name, params], or None when
\* what follows the name is not well-formed.
checked_header(kind, name, tail, params) ==
    IF ~IsIdentifier(name) THEN None
    ELSE IF kind = "def" THEN
        IF /\ parenthesised(tail, params)
           /\ \A i, j \in DOMAIN params : params[i] = params[j] => i = j
        THEN [kind |-> "def", name |-> name, params |-> params]
        ELSE None
    ELSE IF tail = <<":">> \/ (parenthesised(tail, params) /\ Len(params) <= 1)
        THEN [kind |-> "class", name |-> name, params |-> params]
        ELSE None

split_params(inner) == IF inner = <<>> THEN <<>> ELSE split_strip(inner, ",")

header_params(tail) ==
    split_params(strip(SubSeq(tail, 2,
        Len(rstrip(SubSeq(tail, 1, Len(tail) - 1), Whitespace)) - 1)))

header_after_name(kind, name, tail) ==
    checked_header(kind, name, tail, header_params(tail))

header_of_match(kind, kw_len, m, text) ==
    header_after_name(kind, m.name,
        strip(SubSeq(text, kw_len + Len(m.spaces) + Len(m.name) + 1, Len(text))))

class_header(m_class, text) ==
    IF m_class = None THEN None ELSE header_of_match("class", 5, m_class, text)

def_header(m_def, text) ==
    IF m_def = None THEN class_header(RE_CLASS_match(text), text)
    ELSE header_of_match("def", 3, m_def, text)

\* The header of a compound statement: [kind, name, params], or None when the
\* text is no well-formed "def" or "class" header.
parse_header(text) == def_header(RE_DEF_match(text), text)

\* What parsing a block gives: an error, or the block's statements and the
\* index of the first logical line after it.
BlockError == [error |-> TRUE, body |-> <<>>, next |-> 0]

\* node, then the statements of rest.
prepend(node, rest) ==
    IF rest.error THEN BlockError ELSE [rest EXCEPT !.body = <<node>> \o @]

\* The node of a compound statement.
compound(header, body, lineno) ==
    IF header.kind = "def"
    THEN FunctionDef(header.name, plain_arguments(header.params), body, lineno)
    ELSE ClassDef(header.name,
                  [k \in DOMAIN header.params |-> NameLoad(header.params[k])],
                  body, lineno)

RECURSIVE parse_block(_, _, _)

\* The compound statement of logical line i with its block parsed.
parse_compound(L, i, indent, header, block) ==
    IF block.error THEN BlockError
    ELSE prepend(compound(header, block.body, L[i].lineno),
                 parse_block(L, block.next, indent))

\* The statement of logical line i: a simple statement, or a header, which
\* must be followed by a deeper line, which opens its block.
parse_statement(L, i, indent, header, simple) ==
    IF header = None THEN
        IF simple = SyntaxError THEN BlockError
        ELSE prepend(simple, parse_block(L, i + 1, indent))
    ELSE IF i + 1 > Len(L) \/ L[i + 1].indent <= indent THEN BlockError
    ELSE parse_compound(L, i, indent, header,
                        parse_block(L, i + 1, L[i + 1].indent))

\* The statements at indentation indent, from logical line i on.  A deeper
\* line where a statement is expected is an unexpected indent.
parse_block(L, i, indent) ==
    IF i > Len(L) \/ L[i].indent < indent
    THEN [error |-> FALSE, body |-> <<>>, next |-> i]
    ELSE IF L[i].indent > indent THEN BlockError
    ELSE parse_statement(L, i, indent, parse_header(L[i].text),
                         parse_simple(L[i].text, L[i].lineno))

module_of(parsed) == IF parsed.error THEN SyntaxError ELSE Module(parsed.body)

\* ast.parse(source): the Module, or SyntaxError.
ast_parse(lines) == module_of(parse_block(logical_lines(lines), 1, 0))

(***************************************************************************)
(* Source text of a syntax tree: the text ast.parse reads the tree from,   *)
(* one statement per line, indented by four spaces per level.  The trees   *)
(* have no positional-only parameters and no empty tuple or set.           *)
(***************************************************************************)

\* sep.join(parts)
RECURSIVE join_str(_, _)
join_str(parts, sep) ==
    IF parts = <<>> THEN <<>>
    ELSE IF Len(parts) = 1 THEN parts[1]
    ELSE parts[1] \o sep \o join_str(Tail(parts), sep)

RECURSIVE unparse_expr(_)
RECURSIVE unparse_arguments(_)

unparse_expr(node) ==
    LET elts == [i \in DOMAIN node.elts |-> unparse_expr(node.elts[i])]
    IN  CASE node.type = "Name" -> node.id
          [] node.type = "Constant" -> <<"1">>
          [] node.type = "Attribute" ->
                unparse_expr(node.value) \o <<".">> \o node.attr
          [] node.type = "Starred" -> <<"*">> \o unparse_expr(node.value)
          [] node.type = "Tuple" ->
                <<"(">> \o join_str(elts, <<","," ">>)
                \o (IF Len(elts) = 1 THEN <<",">> ELSE <<>>) \o <<")">>
          [] node.type = "List" -> <<"[">> \o join_str(elts, <<","," ">>) \o <<"]">>
          [] node.type = "Set" -> <<"{">> \o join_str(elts, <<","," ">>) \o <<"}">>
          [] node.type = "Dict" -> <<"{","}">>
          [] node.type = "Lambda" ->
                <<"l","a","m","b","d","a"," ">> \o unparse_arguments(node.args) \o <<":"," ">>
                \o unparse_expr(node.body)

unparse_arguments(a) ==
    LET n == Len(a.args)
        d == Len(a.defaults)
        positional ==
            [i \in 1..n |->
                a.args[i].arg \o
                (IF i > n - d
                 THEN <<"=">> \o unparse_expr(a.defaults[i - (n - d)])
                 ELSE <<>>)]
        star ==
            IF a.vararg # None THEN <<<<"*">> \o a.vararg.arg>>
            ELSE IF a.kwonlyargs # <<>> THEN <<<<"*">>>>
            ELSE <<>>
        kwonly ==
            [i \in DOMAIN a.kwonlyargs |->
                a.kwonlyargs[i].arg \o
                (IF a.kw_defaults[i] # None
                 THEN <<"=">> \o unparse_expr(a.kw_defaults[i])
                 ELSE <<>>)]
        kwarg == IF a.kwarg # None THEN <<<<"*","*">> \o a.kwarg.arg>> ELSE <<>>
    IN  join_str(positional \o star \o kwonly \o kwarg, <<","," ">>)

\* The lines of one statement at the given indentation.
RECURSIVE unparse_stmt(_, _)
unparse_stmt(node, indent) ==
    LET line(text) == <<indent \o text \o <<"\n">>>>
        block(body) ==
            Flatten([i \in DOMAIN body |->
                        unparse_stmt(body[i], indent \o <<" "," "," "," ">>)])
        def(kw) ==
            line(kw \o node.name \o <<"(">> \o unparse_arguments(node.args)
                 \o <<")",":">>)
            \o block(node.body)
    IN  CASE node.type = "Pass" -> line(<<"p","a","s","s">>)
          [] node.type = "Assign" ->
                line(join_str([i \in DOMAIN node.targets |->
                                  unparse_expr(node.targets[i])]
                              \o <<unparse_expr(node.value)>>, <<" ","="," ">>))
          [] node.type = "AnnAssign" ->
                line(unparse_expr(node.target) \o <<":"," ">>
                     \o unparse_expr(node.annotation)
                     \o (IF node.value # None
                         THEN <<" ","="," ">> \o unparse_expr(node.value)
                         ELSE <<>>))
          [] node.type = "AugAssign" ->
                line(unparse_expr(node.target) \o <<" ","+","="," ">>
                     \o unparse_expr(node.value))
          [] node.type = "If" ->
                line(<<"i","f"," ">> \o unparse_expr(node.test) \o <<":">>)
                \o block(node.body)
                \o (IF node.orelse # <<>>
                    THEN line(<<"e","l","s","e",":">>) \o block(node.orelse)
                    ELSE <<>>)
          [] node.type = "FunctionDef" -> def(<<"d","e","f"," ">>)
          [] node.type = "AsyncFunctionDef" -> def(<<"a","s","y","n","c"," ","d","e","f"," ">>)
          [] node.type = "ClassDef" ->
                line(<<"c","l","a","s","s"," ">> \o node.name
                     \o (IF node.bases # <<>>
                         THEN <<"(">> \o join_str([i \in DOMAIN node.bases |->
                                                   unparse_expr(node.bases[i])],
                                                <<","," ">>) \o <<")">>
                         ELSE <<>>)
                     \o <<":">>)
                \o block(node.body)

\* The physical lines of a module.
unparse(module) ==
    Flatten([i \in DOMAIN module.body |-> unparse_stmt(module.body[i], <<>>)])

(***************************************************************************)
(* The program's state                                                     *)
(***************************************************************************)

VARIABLES
    argv_len,           \* len(sys.argv)
    input_path,         \* sys.argv[1]
    fs,                 \* the files on disk: path -> [status, lines, tree]
    listing,            \* the order in which os.walk yields the files
    pc,                 \* where the program is
    error,              \* the exception that ended the run, "" when none
    todo,               \* main: the paths the loop over the files has left
    all_items,          \* main: all_items
    file_path,          \* analyze_file: file_path
    line_number,        \* analyze_file: the number of the last line read
    blank_lines_before, \* analyze_file: blank_lines_before
    items,              \* analyze_file: items
    issues,             \* analyze_file: issues, find_issues_for_line's last result
    tree,               \* analyze_ast_issues: tree, None before ast.parse
    queue,              \* analyze_ast_issues: the nodes ast.walk has yet to yield
    ast_items,          \* analyze_ast_issues: items
    results,            \* history: what each finished analyze_file call returned
    report,             \* main: sorted(all_items), once computed
    stdout              \* the lines printed

vars ==
    <<argv_len, input_path, fs, listing, pc, error, todo, all_items,
      file_path, line_number, blank_lines_before, items, issues, tree,
      queue, ast_items, results, report, stdout>>

\* What the run never changes.
inputs == <<argv_len, input_path, fs, listing>>

(***************************************************************************)
(* Files                                                                   *)
(***************************************************************************)

\* A readable file: its physical lines (each with its terminator, which only
\* the last line may lack) and what ast.parse answers for its text.
TextFile(lines) ==
    [status |-> "ok", lines |-> lines, tree |-> ast_parse(lines)]

\* A readable file given by its syntax tree.
TreeFile(t) == [status |-> "ok", lines |-> unparse(t), tree |-> t]

\* A file open() refuses, and one whose bytes are no UTF-8.
NoAccessFile == [status |-> "OSError", lines |-> <<>>, tree |-> None]

BinaryFile == [status |-> "UnicodeDecodeError", lines |-> <<>>, tree |-> None]

\* The scanned directory and os.path.join(root, name).
Root == <<"d">>

join(root, name) == root \o <<"/">> \o name

StrLessAt(seq) ==
    [i \in DOMAIN seq |-> [j \in DOMAIN seq |-> StrLess(seq[i], seq[j])]]

\* sorted(paths)
sorted_paths(paths) == StableSort(paths, StrLessAt(paths))

IsPython(path) == endswith(path, <<".","p","y">>)

\* list(iter_python_files(path)): the path itself when it is a file, else the
\* files os.walk finds under it (nothing when the path does not exist).
iter_python_files(path) ==
    IF path \in DOMAIN fs
    THEN (IF IsPython(path) THEN <<path>> ELSE <<>>)
    ELSE IF path = Root THEN SelectSeq(listing, IsPython)
    ELSE <<>>

ItemLessAt(seq) ==
    [i \in DOMAIN seq |-> [j \in DOMAIN seq |-> ItemLess(seq[i], seq[j])]]

\* Two faulty sorted_items: one leaves the items in the order they were
\* collected, the other keeps one of every run of equal items.
unsorted_items(seq) == seq

sorted_distinct_items(seq) ==
    LET sorted == StableSort(seq, ItemLessAt(seq))
        IsFirst(k) == k = 1 \/ sorted[k] # sorted[k - 1]
        index == SelectSeq([k \in DOMAIN sorted |-> k], IsFirst)
    IN  [k \in DOMAIN index |-> sorted[index[k]]]

\* sorted(all_items)
sorted_items(seq) == StableSort(seq, ItemLessAt(seq))

\* str(n) for n >= 0.
RECURSIVE str_int(_)
str_int(n) ==
    IF n < 10 THEN <<Ascii[ord("0") + n]>>
    ELSE str_int(n \div 10) \o <<Ascii[ord("0") + (n % 10)]>>

\* f"{item.file_path}: Line {item.line_number}: {item.code} {item.message}"
format_item(item) ==
    item.file_path \o <<":"," ","L","i","n","e"," ">> \o str_int(item.line_number) \o <<":"," ">>
    \o item.code \o <<" ">> \o item.message

\* A faulty except clause, which lets SyntaxError through.
caught_without_syntax_error == {"OSError", "UnicodeDecodeError"}

\* The exceptions analyze_ast_issues catches.
caught_by_analyze_ast_issues == {"SyntaxError", "OSError", "UnicodeDecodeError"}

(***************************************************************************)
(* main                                                                    *)
(***************************************************************************)

\* main up to its loop over the files: return at once unless there is exactly
\* one argument, else list and sort the files.
MainStart ==
    /\ pc = "main"
    /\ IF argv_len # 2
       THEN /\ pc' = "exit"
            /\ UNCHANGED todo
       ELSE /\ pc' = "for_file"
            /\ todo' = sorted_paths(iter_python_files(input_path))
    /\ UNCHANGED <<inputs, error, all_items, file_path, line_number,
                   blank_lines_before, items, issues, tree, queue, ast_items,
                   results, report, stdout>>

\* analyze_file(todo[i]) up to its loop over the lines, the file opening.
OpenFileAt(i) ==
    /\ pc = "for_file"
    /\ i \in DOMAIN todo
    /\ fs[todo[i]].status # "OSError"
    /\ file_path' = todo[i]
    /\ todo' = SubSeq(todo, 1, i - 1) \o SubSeq(todo, i + 1, Len(todo))
    /\ items' = <<>>
    /\ blank_lines_before' = 0
    /\ line_number' = 0
    /\ pc' = "for_line"
    /\ UNCHANGED <<inputs, error, all_items, issues, tree, queue, ast_items,
                   results, report, stdout>>

\* analyze_file(todo[i]) when open() raises: nothing catches the error, and it
\* ends main.
OpenFailsAt(i) ==
    /\ pc = "for_file"
    /\ i \in DOMAIN todo
    /\ fs[todo[i]].status = "OSError"
    /\ file_path' = todo[i]
    /\ todo' = SubSeq(todo, 1, i - 1) \o SubSeq(todo, i + 1, Len(todo))
    /\ error' = "OSError"
    /\ pc' = "crashed"
    /\ UNCHANGED <<inputs, all_items, line_number, blank_lines_before, items,
                   issues, tree, queue, ast_items, results, report, stdout>>

\* The loop of main takes the files in sorted order.
OpenFile == OpenFileAt(1)

OpenFails == OpenFailsAt(1)

\* One iteration of analyze_file's loop over the lines.
ReadLine ==
    /\ pc = "for_line"
    /\ fs[file_path].status = "ok"
    /\ line_number < Len(fs[file_path].lines)
    /\ LET raw_line == fs[file_path].lines[line_number + 1]
           found    == find_issues_for_line(raw_line, blank_lines_before)
       IN  /\ issues' = found
           /\ items' = items \o
                [k \in DOMAIN found |->
                    ReportItem(file_path, line_number + 1, found[k].code,
                               format(MESSAGES(found[k].code), found[k].fmt))]
           /\ blank_lines_before' =
                IF strip(raw_line) = <<>> THEN blank_lines_before + 1 ELSE 0
    /\ line_number' = line_number + 1
    /\ UNCHANGED <<inputs, pc, error, todo, all_items, file_path, tree, queue,
                   ast_items, results, report, stdout>>

\* Reading the first line decodes the file: bytes that are no UTF-8 raise, and
\* nothing catches the error.
ReadFails ==
    /\ pc = "for_line"
    /\ fs[file_path].status = "UnicodeDecodeError"
    /\ error' = "UnicodeDecodeError"
    /\ pc' = "crashed"
    /\ UNCHANGED <<inputs, todo, all_items, file_path, line_number,
                   blank_lines_before, items, issues, tree, queue, ast_items,
                   results, report, stdout>>

\* The loop over the lines ends; analyze_file calls analyze_ast_issues.
EndOfFile ==
    /\ pc = "for_line"
    /\ fs[file_path].status = "ok"
    /\ line_number = Len(fs[file_path].lines)
    /\ pc' = "parse"
    /\ UNCHANGED <<inputs, error, todo, all_items, file_path, line_number,
                   blank_lines_before, items, issues, tree, queue, ast_items,
                   results, report, stdout>>

\* What open, read and ast.parse raise in analyze_ast_issues, "" when nothing.
parse_exception(file) ==
    IF file.status # "ok" THEN file.status
    ELSE IF file.tree = SyntaxError THEN "SyntaxError"
    ELSE ""

\* analyze_ast_issues returns tail: analyze_file extends items with it and
\* returns them to main, which extends all_items.
ReturnToMain(tail) ==
    /\ items' = items \o tail
    /\ all_items' = all_items \o items \o tail
    /\ results' = Append(results, [file_path |-> file_path,
                                   items |-> items \o tail])
    /\ pc' = "for_file"

\* analyze_ast_issues: the file does not parse.  A caught exception returns
\* [] and analyze_file returns the line findings; any other ends main.
ParseFails ==
    /\ pc = "parse"
    /\ parse_exception(fs[file_path]) # ""
    /\ IF parse_exception(fs[file_path]) \in caught_by_analyze_ast_issues
       THEN /\ ReturnToMain(<<>>)
            /\ UNCHANGED error
       ELSE /\ error' = parse_exception(fs[file_path])
            /\ pc' = "crashed"
            /\ UNCHANGED <<items, all_items, results>>
    /\ UNCHANGED <<inputs, todo, file_path, line_number, blank_lines_before,
                   issues, tree, queue, ast_items, report, stdout>>

\* analyze_ast_issues: the file parses, and ast.walk starts at the tree.
ParseOk ==
    /\ pc = "parse"
    /\ parse_exception(fs[file_path]) = ""
    /\ tree' = fs[file_path].tree
    /\ queue' = <<fs[file_path].tree>>
    /\ ast_items' = <<>>
    /\ pc' = "walk"
    /\ UNCHANGED <<inputs, error, todo, all_items, file_path, line_number,
                   blank_lines_before, items, issues, results, report, stdout>>

\* One iteration of the loop over ast.walk(tree): ast.walk takes the first
\* node of its queue and appends the node's children to it.
WalkNode ==
    /\ pc = "walk"
    /\ queue # <<>>
    /\ queue' = Tail(queue) \o iter_child_nodes(Head(queue))
    /\ ast_items' = ast_items \o items_of_node(file_path, Head(queue))
    /\ UNCHANGED <<inputs, pc, error, todo, all_items, file_path, line_number,
                   blank_lines_before, items, issues, tree, results, report,
                   stdout>>

\* ast.walk is exhausted: analyze_ast_issues returns its items, analyze_file
\* extends its own with them and returns.
WalkDone ==
    /\ pc = "walk"
    /\ queue = <<>>
    /\ ReturnToMain(ast_items)
    /\ UNCHANGED <<inputs, error, todo, file_path, line_number,
                   blank_lines_before, issues, tree, queue, ast_items, report,
                   stdout>>

\* The loop over the files is over: main sorts and prints.
PrintReport ==
    /\ pc = "for_file"
    /\ todo = <<>>
    /\ report' = sorted_items(all_items)
    /\ stdout' = [k \in DOMAIN sorted_items(all_items) |->
                    format_item(sorted_items(all_items)[k])]
    /\ pc' = "exit"
    /\ UNCHANGED <<inputs, error, todo, all_items, file_path, line_number,
                   blank_lines_before, items, issues, tree, queue, ast_items,
                   results>>

AnalyzeLines == ReadLine \/ ReadFails \/ EndOfFile

AnalyzeAst == ParseFails \/ ParseOk \/ WalkNode \/ WalkDone

Next == MainStart \/ OpenFile \/ OpenFails \/ AnalyzeLines \/ AnalyzeAst \/ PrintReport

(***************************************************************************)
(* Inputs                                                                  *)
(***************************************************************************)

\* The sequences over S of length at most n.
SeqsUpTo(S, n) == UNION {[1..k -> S] : k \in 0..n}

\* The orders in which the elements of S can be listed.
Orders(S) ==
    {p \in [1..Cardinality(S) -> S] :
        \A i, j \in 1..Cardinality(S) : p[i] = p[j] => i = j}

\* Bounds of the model.
MaxLines == 4

MaxBlankPrefix == 3

MaxDefaults == 2

MaxNest == 2

MaxTargetDepth == 2

\* The state main starts in.
Start(argc, path, files, order) ==
    /\ argv_len = argc
    /\ input_path = path
    /\ fs = files
    /\ listing = order
    /\ pc = "main"
    /\ error = ""
    /\ todo = <<>>
    /\ all_items = <<>>
    /\ file_path = <<>>
    /\ line_number = 0
    /\ blank_lines_before = 0
    /\ items = <<>>
    /\ issues = <<>>
    /\ tree = None
    /\ queue = <<>>
    /\ ast_items = <<>>
    /\ results = <<>>
    /\ report = <<>>
    /\ stdout = <<>>

PathA == join(Root, <<"a",".","p","y">>)

PathB == join(Root, <<"b",".","p","y">>)

PathNotes == join(Root, <<"n",".","t","x","t">>)

\* A header without a body, the same header with a body, a function whose
\* findings come out of the scanners in another order than the report's and
\* with two equal findings, and a file that does not parse.
HeaderOnly == TextFile(<<<<"d","e","f"," ","m","y","F","u","n","c","t","i","o","n","(","A","r","g","O","n","e",")",":">>>>)

HeaderAndBody == TextFile(<<<<"d","e","f"," ","m","y","F","u","n","c","t","i","o","n","(","A","r","g","O","n","e",")",":","\n">>, <<" "," "," "," ","p","a","s","s","\n">>>>)

Shuffled == TextFile(<<<<"d","e","f"," ","f","(",")",":","\n">>, <<" "," "," "," ","B","b",","," ","A","a",","," ","A","a"," ","="," ","x",";","\n">>>>)

Unparsable == TextFile(<<<<"x"," ","="," ","1",";"," "," ","#"," ","t","o","d","o","\n">>, <<"f","o","o","(","\n">>>>)

Notes == TextFile(<<<<"x"," ","="," ","1",";","\n">>>>)

PythonFiles ==
    {HeaderOnly, HeaderAndBody, Shuffled, Unparsable, TextFile(<<>>),
     NoAccessFile, BinaryFile}

\* The directories: any of a.py, b.py and n.txt, present or not.
Directories ==
    UNION {{f \in [D -> PythonFiles \cup {Notes}] :
                \A p \in D : (f[p] = Notes) <=> (p = PathNotes)} :
           D \in SUBSET {PathA, PathB, PathNotes}}

FullDirectory ==
    (PathA :> Shuffled) @@ (PathB :> HeaderAndBody) @@ (PathNotes :> Notes)

\* main is given a directory, listed by the system in any order; or a single
\* file or a path that does not exist; or not exactly one argument.
Init ==
    \/ \E files \in Directories : \E order \in Orders(DOMAIN files) :
          Start(2, Root, files, order)
    \/ \E path \in {PathA, PathNotes, join(Root, <<"e",".","p","y">>)} :
          Start(2, path, FullDirectory, <<PathNotes, PathB, PathA>>)
    \/ \E argc \in {1, 3} :
          Start(argc, Root, FullDirectory, <<PathNotes, PathB, PathA>>)

Spec == Init /\ [][Next]_vars

\* The same program with its loop over the files taking them in any order.
NextAnyOrder ==
    \/ MainStart
    \/ \E i \in DOMAIN todo : OpenFileAt(i)
    \/ \E i \in DOMAIN todo : OpenFailsAt(i)
    \/ AnalyzeLines
    \/ AnalyzeAst
    \/ PrintReport

SpecAnyOrder == Init /\ [][NextAnyOrder]_vars

\* One file of blank and non-blank lines in any sequence.
RunLines == {<<"\n">>, <<" "," "," ","\n">>, <<"x"," ","="," ","1","\n">>, <<" "," "," "," ","y"," ","="," ","2","\n">>}

InitBlank ==
    \E file \in {TextFile(lines) : lines \in SeqsUpTo(RunLines, MaxLines)}
                \cup {NoAccessFile, BinaryFile} :
        Start(2, Root, PathA :> file, <<PathA>>)

SpecBlank == InitBlank /\ [][Next]_vars

\* One file of some blank lines and then one line of any kind, with or
\* without its terminator.
SampleLines ==
    {<<"x"," ","="," ","\"","a"," ","#"," ","b","\""," "," ","#"," ","c">>, <<"x"," ","="," ","("," "," ","#"," ","c">>, <<"x"," ","="," ","1"," ","#"," ","t","o","d","o">>, <<"#"," ","T","O","D","O">>,
     <<"f","o","o","(">>, <<"x"," ","="," ","1",";"," "," ","#"," ","c">>, <<"\t","x"," ","="," ","1">>, <<" ","x"," ","="," ","1">>,
     <<"d","e","f"," ","m","y","F","u","n","c","t","i","o","n","(","A","r","g","O","n","e",")",":">>, <<" "," ","c","l","a","s","s"," "," ","f","o","o","_","b","a","r","(","B","a","s","e",")",":">>,
     <<"d","e","f"," "," ","_","_","i","n","i","t","_","_","(","s","e","l","f",")",":">>, <<"c","l","a","s","s","y"," ","="," ","1">>, <<"d","e","f"," ","_","(","x",")",":">>,
     <<" "," "," "," ","d","e","f"," ","_","_","B","a","d","_","_"," ","(","x",")",":"," ","#"," ","T","o","D","o",";">>, <<" ","\t"," ","c","l","a","s","s","\t","A">>, <<"d","e","f">>,
     <<"c","l","a","s","s"," ","9","a",":">>, <<"s"," ","="," ","'","#","'"," ",";">>, <<"x"," ","="," ","1"," "," ","#","t","o","d","o">>, <<"x"," ","="," ","1"," ",";"," "," ">>,
     <<" "," "," "," "," "," ","y"," ","="," ","2"," "," ","#"," ","T","o","d","o",":"," ","z">>, <<"c","l","a","s","s"," "," ","l","o","w","e","r",":"," "," ","#"," ","T","O","D","O">>,
     <<"x"," ","="," ">> \o [i \in 1..(MAX_LINE_LENGTH - 4) |-> "1"],
     <<"x"," ","="," ">> \o [i \in 1..(MAX_LINE_LENGTH - 3) |-> "1"],
     <<" "," ","#"," ">> \o [i \in 1..(MAX_LINE_LENGTH - 3) |-> ";"]}

InitLine ==
    \/ \E k \in 0..MaxBlankPrefix : \E line \in SampleLines :
       \E end \in {<<>>, <<"\n">>} :
          Start(2, Root,
                PathA :> TextFile([i \in 1..k |-> <<"\n">>] \o <<line \o end>>),
                <<PathA>>)
    \/ \E file \in {NoAccessFile, BinaryFile} :
          Start(2, Root, PathA :> file, <<PathA>>)

SpecLine == InitLine /\ [][Next]_vars

\* One file given by its syntax tree.  The values a parameter's default is
\* written as: two that are no mutable literal, and the three mutable ones.
DefaultValues ==
    {Constant, NameLoad(<<"x">>), ListLoad(<<>>), DictNode, SetNode(<<Constant>>)}

\* def f(s, p1=..., p2=..., *, k=...): a body of one pass statement, the
\* defaults given positionally and, at most one, for the keyword-only k (None
\* when k has no default).
DefaultsDef(def_type, defaults, kw_defaults) ==
    [type |-> def_type, name |-> <<"f">>,
     args |-> arguments(<<>>,
                        <<arg(<<"s">>)>> \o
                        [i \in DOMAIN defaults |-> arg(<<"p">> \o str_int(i))],
                        None,
                        [i \in DOMAIN kw_defaults |-> arg(<<"k">>)],
                        kw_defaults, None, defaults),
     body |-> <<Pass(2)>>, lineno |-> 1]

DefaultsTrees ==
    {Module(<<DefaultsDef(def_type, defaults, kw_defaults)>>) :
        def_type \in function_types,
        defaults \in SeqsUpTo(DefaultValues, MaxDefaults),
        kw_defaults \in SeqsUpTo(DefaultValues \cup {None}, 1)}

\* A method, an async function and a lambda, each with defaults.
MethodsTree ==
    Module(<<
        ClassDef(<<"A">>, <<>>,
                 <<FunctionDef(<<"m">>,
                               arguments(<<>>, <<arg(<<"s","e","l","f">>), arg(<<"a">>), arg(<<"b">>)>>,
                                         None, <<>>, <<>>, None,
                                         <<ListLoad(<<>>), DictNode>>),
                               <<Pass(3)>>, 2)>>, 1),
        AsyncFunctionDef(<<"g">>,
                         arguments(<<>>, <<>>, arg(<<"a","r","g","s">>), <<arg(<<"k">>)>>,
                                   <<None>>, arg(<<"k","w">>), <<>>),
                         <<Pass(5)>>, 4),
        Assign(<<Name(<<"h">>)>>,
               Lambda(arguments(<<>>, <<arg(<<"a">>)>>, None, <<>>, <<>>, None,
                                <<ListLoad(<<>>)>>),
                      Constant),
               6)>>)

\* The compound statements an assignment is nested in.
NestKinds == {"def", "async", "class", "if"}

Wrap(kind, body, lineno) ==
    CASE kind = "def" -> FunctionDef(<<"g">>, plain_arguments(<<>>), body, lineno)
      [] kind = "async" ->
            AsyncFunctionDef(<<"g">>, plain_arguments(<<>>), body, lineno)
      [] kind = "class" -> ClassDef(<<"C">>, <<>>, body, lineno)
      [] kind = "if" -> If(NameLoad(<<"x">>), body, <<>>, lineno)

\* The assignment BadName = 1 inside the compound statements of kinds, the
\* first outermost, one line each from lineno on.
RECURSIVE Nest(_, _)
Nest(kinds, lineno) ==
    IF kinds = <<>>
    THEN <<Assign(<<Name(<<"B","a","d","N","a","m","e">>)>>, Constant, lineno)>>
    ELSE <<Wrap(Head(kinds), Nest(Tail(kinds), lineno + 1), lineno)>>

\* def f(): the nest, and then an assignment of f's own.
NestingTrees ==
    {Module(<<FunctionDef(<<"f">>, plain_arguments(<<>>),
                          Nest(kinds, 2)
                          \o <<Assign(<<Name(<<"O","w","n","N","a","m","e">>)>>, Constant,
                                      Len(kinds) + 3)>>,
                          1)>>) :
        kinds \in SeqsUpTo(NestKinds, MaxNest)}

\* Assignment targets: names, an attribute, and the tuples and lists of
\* exactly the given depth, a starred name only directly in a tuple.
TargetAtoms ==
    {Name(<<"o","k">>), Name(<<"B","a","d">>), Attribute(NameLoad(<<"s","e","l","f">>), <<"B","a","d">>)}

RECURSIVE TargetsOfDepth(_)
TargetsOfDepth(d) ==
    IF d = 0 THEN TargetAtoms
    ELSE LET inner == TargetsOfDepth(d - 1)
             first == IF d = 1 THEN inner \cup {Starred(Name(<<"R","e","s","t">>))}
                      ELSE inner
         IN  {TupleNode(<<x, y>>) :
                 x \in first, y \in {Name(<<"o","k">>), Name(<<"B","a","d">>)}}
             \cup {ListNode(<<x>>) : x \in inner}

Targets == UNION {TargetsOfDepth(d) : d \in 0..MaxTargetDepth}

\* The assignment statements of line 2.
TargetStatements ==
    {Assign(<<t>>, NameLoad(<<"x","s">>), 2) : t \in Targets}
    \cup {Assign(<<Name(<<"B","a","d">>), t>>, NameLoad(<<"x","s">>), 2) :
            t \in TargetsOfDepth(0) \cup TargetsOfDepth(1)}
    \cup {AnnAssign(t, NameLoad(<<"i","n","t">>), v, 2) :
            t \in TargetAtoms, v \in {None, Constant}}
    \cup {AugAssign(t, Constant, 2) : t \in TargetAtoms}

TargetTrees ==
    {Module(<<FunctionDef(<<"f">>, plain_arguments(<<>>), <<stmt>>, 1)>>) :
        stmt \in TargetStatements}

Trees == DefaultsTrees \cup {MethodsTree} \cup NestingTrees \cup TargetTrees

InitAst ==
    \E file \in {TreeFile(t) : t \in Trees}
                \cup {TextFile(<<<<"f","o","o","(","\n">>>>), NoAccessFile, BinaryFile} :
        Start(2, Root, PathA :> file, <<PathA>>)

SpecAst == InitAst /\ [][Next]_vars

(***************************************************************************)
(* What the properties are stated with                                     *)
(***************************************************************************)

Range(seq) == {seq[i] : i \in DOMAIN seq}

Occurrences(seq, x) == Cardinality({i \in DOMAIN seq : seq[i] = x})

\* s is a permutation of t.
IsPermutation(s, t) ==
    /\ Len(s) = Len(t)
    /\ \A x \in Range(s) \cup Range(t) : Occurrences(s, x) = Occurrences(t, x)

\* a <= b in the lexicographic order over (file path, line number, rule
\* code, message).
LexLessEq(a, b) ==
    \/ StrLess(a.file_path, b.file_path)
    \/ /\ a.file_path = b.file_path
       /\ \/ a.line_number < b.line_number
          \/ /\ a.line_number = b.line_number
             /\ \/ StrLess(a.code, b.code)
                \/ /\ a.code = b.code
                   /\ ~StrLess(b.message, a.message)

\* The number of findings of a code at a line.
CountAt(found, lineno, code) ==
    Cardinality({k \in DOMAIN found :
                    found[k].line_number = lineno /\ found[k].code = code})

\* A line of whitespace only.
IsBlank(line) == \A k \in DOMAIN line : line[k] \in Whitespace

\* The length of the maximal run of blank lines that ends just before line i.
BlankRunBefore(lines, i) ==
    Cardinality({k \in 1..(i - 1) : \A j \in (i - k)..(i - 1) : IsBlank(lines[j])})

\* What the line scanner alone finds in the lines from the i-th on, blank
\* blank lines having come before.
RECURSIVE LineFindings(_, _, _, _)
LineFindings(path, lines, i, blank) ==
    IF i > Len(lines) THEN <<>>
    ELSE LET found == find_issues_for_line(lines[i], blank)
         IN  [k \in DOMAIN found |->
                ReportItem(path, i, found[k].code,
                           format(MESSAGES(found[k].code), found[k].fmt))]
             \o LineFindings(path, lines, i + 1,
                             IF IsBlank(lines[i]) THEN blank + 1 ELSE 0)

\* What the structural scanner finds at the nodes ast.walk yields from the
\* queue q.
RECURSIVE AstFindings(_, _)
AstFindings(path, q) ==
    IF q = <<>> THEN <<>>
    ELSE items_of_node(path, Head(q))
         \o AstFindings(path, Tail(q) \o iter_child_nodes(Head(q)))

\* The findings of one readable file, from its content alone.
FileFindings(path) ==
    LineFindings(path, fs[path].lines, 1, 0)
    \o (IF fs[path].tree = SyntaxError THEN <<>>
        ELSE AstFindings(path, <<fs[path].tree>>))

\* The lines a run prints that takes the given files one after the other.
OutputOf(paths) ==
    LET found == sorted_items(Flatten([i \in DOMAIN paths |->
                                          FileFindings(paths[i])]))
    IN  [k \in DOMAIN found |-> format_item(found[k])]

Candidates == sorted_paths(iter_python_files(input_path))

IsReadable(path) == fs[path].status = "ok"

\* The nodes of the trees rooted at the nodes of q.
RECURSIVE NodesFrom(_)
NodesFrom(q) ==
    IF q = <<>> THEN {}
    ELSE {Head(q)} \cup NodesFrom(Tail(q) \o iter_child_nodes(Head(q)))

FunctionDefsIn(q) == {n \in NodesFrom(q) : n.type \in function_types}

\* The assignments a body owns: its own statements and those inside its
\* compound statements that open no scope.
RECURSIVE OwnedAssignments(_)
OwnedAssignments(stmts) ==
    IF stmts = <<>> THEN {}
    ELSE LET stmt == Head(stmts)
         IN  (CASE stmt.type \in {"Assign", "AnnAssign", "AugAssign"} -> {stmt}
                [] stmt.type = "If" ->
                      OwnedAssignments(stmt.body) \cup OwnedAssignments(stmt.orelse)
                [] OTHER -> {})
             \cup OwnedAssignments(Tail(stmts))

\* The names a target binds, one per occurrence.
RECURSIVE BoundNames(_)
BoundNames(target) ==
    CASE target.type = "Name" -> <<target.id>>
      [] target.type \in {"Tuple", "List"} ->
            Flatten([i \in DOMAIN target.elts |-> BoundNames(target.elts[i])])
      [] target.type = "Starred" -> BoundNames(target.value)
      [] OTHER -> <<>>

\* The number of name occurrences in a statement's targets that fail the
\* snake check.
NonSnakeOccurrences(stmt) ==
    LET targets == IF stmt.type = "Assign" THEN stmt.targets
                   ELSE <<stmt.target>>
    IN  Len(SelectSeq(Flatten([i \in DOMAIN targets |-> BoundNames(targets[i])]),
                      NotSnake))

\* The number of a definition's defaults that are a list, dict or set literal.
MutableDefaults(def) ==
    Cardinality({i \in DOMAIN (def.args.defaults \o def.args.kw_defaults) :
        (def.args.defaults \o def.args.kw_defaults)[i].type
            \in {"List", "Dict", "Set"}})

\* ast.walk has yielded every node of the tree.
WalkOver == pc = "walk" /\ queue = <<>>

(***************************************************************************)
(* Properties                                                              *)
(***************************************************************************)

\* C1: what main prints is the findings of all files sorted by (file path,
\* line number, rule code, message), and these are a permutation of the
\* concatenation of what analyze_file returned for each file: nothing is
\* dropped, added or merged, equal findings included.
C1_SortedPermutation ==
    pc = "exit" /\ argv_len = 2 =>
        /\ stdout = [k \in DOMAIN report |-> format_item(report[k])]
        /\ \A k \in 1..(Len(report) - 1) : LexLessEq(report[k], report[k + 1])
        /\ IsPermutation(report,
                         Flatten([i \in DOMAIN results |-> results[i].items]))

\* Two files were scanned, the findings came out of them in another order
\* than the printed one, and two of them are equal in all four fields.
C1_Witness ==
    /\ pc = "exit"
    /\ Len(results) = 2
    /\ report # all_items
    /\ \E k \in 1..(Len(report) - 1) : report[k] = report[k + 1]

\* C2: an assignment to a non-snake name inside a function G nested in a
\* function F is not reported while F's body is traversed, and once the walk
\* is over it has one S011 finding per such name.
C2_NestedReportedOnce ==
    pc = "walk" =>
        \A F \in FunctionDefsIn(<<tree>>) :
        \A G \in FunctionDefsIn(F.body) :
        \A stmt \in OwnedAssignments(G.body) :
            NonSnakeOccurrences(stmt) > 0 =>
                /\ CountAt(s011_items(file_path, F), stmt.lineno, S011) = 0
                /\ queue = <<>> =>
                     CountAt(ast_items, stmt.lineno, S011)
                        = NonSnakeOccurrences(stmt)

\* C3: for a readable file that does not parse, no SyntaxError ends the run,
\* the walk over a tree never starts, and analyze_file returns exactly what
\* the line scanner finds in the file's lines.
C3_UnparsableKeepsLineFindings ==
    /\ error # "SyntaxError"
    /\ pc = "walk" => fs[file_path].tree # SyntaxError
    /\ \A i \in DOMAIN results :
          fs[results[i].file_path].tree = SyntaxError =>
              results[i].items
                 = LineFindings(results[i].file_path,
                                fs[results[i].file_path].lines, 1, 0)

\* analyze_file has returned the line findings of a file that does not parse.
C3_Witness ==
    \E i \in DOMAIN results :
        /\ fs[results[i].file_path] = Unparsable
        /\ results[i].items # <<>>

\* C4: a candidate file that cannot be opened or decoded does not end the
\* run: no error surfaces, and the run prints the findings of the readable
\* candidates in full.
C4_UnreadableSkipped ==
    /\ error = ""
    /\ pc # "crashed"
    /\ pc = "exit" /\ argv_len = 2 =>
          stdout = OutputOf(SelectSeq(Candidates, IsReadable))

\* C5: while a file is scanned, the counter is the length of the blank run
\* before the next line, and each line read so far has one S006 finding when
\* it is non-blank and follows a blank run longer than two, none otherwise.
C5_BlankRun ==
    file_path \in DOMAIN fs /\ fs[file_path].status = "ok" =>
        /\ pc = "for_line" =>
              blank_lines_before
                 = BlankRunBefore(fs[file_path].lines, line_number + 1)
        /\ \A i \in 1..line_number :
              CountAt(items, i, S006)
                 = IF /\ ~IsBlank(fs[file_path].lines[i])
                      /\ BlankRunBefore(fs[file_path].lines, i) > 2
                   THEN 1 ELSE 0

\* The fourth line of a file has its S006 finding, after three blank lines.
C5_Witness ==
    /\ pc = "parse"
    /\ CountAt(items, 4, S006) = 1
    /\ BlankRunBefore(fs[file_path].lines, 4) = 3

\* C6, as stated: the file of the single line "def myFunction(ArgOne):" has
\* two findings, S009 and S010, both at line 1.
C6_HeaderOnlyTwoFindings ==
    \A i \in DOMAIN results :
        fs[results[i].file_path] = HeaderOnly =>
            /\ Len(results[i].items) = 2
            /\ CountAt(results[i].items, 1, S009) = 1
            /\ CountAt(results[i].items, 1, S010) = 1

\* C6, amended: the file of the single line "def myFunction(ArgOne):" has
\* one finding, S009 for myFunction at line 1 (a header without a body does
\* not parse, so the structural scanner finds nothing); with the body line
\* "    pass" it has two, S009 for myFunction and S010 for ArgOne, at line 1.
C6_HeaderFindings ==
    \A i \in DOMAIN results :
        LET S009Item ==
                ReportItem(results[i].file_path, 1, S009,
                           format(MESSAGES(S009), Fmt("name", <<"m","y","F","u","n","c","t","i","o","n">>)))
            S010Item ==
                ReportItem(results[i].file_path, 1, S010,
                           format(MESSAGES(S010), Fmt("name", <<"A","r","g","O","n","e">>)))
        IN  /\ fs[results[i].file_path] = HeaderOnly =>
                results[i].items = <<S009Item>>
            /\ fs[results[i].file_path] = HeaderAndBody =>
                results[i].items = <<S009Item, S010Item>>

\* Both files were scanned in one run.
C6_Witness ==
    /\ pc = "exit"
    /\ \E i \in DOMAIN results : fs[results[i].file_path] = HeaderOnly
    /\ \E i \in DOMAIN results : fs[results[i].file_path] = HeaderAndBody

\* C7: whatever the order the files are taken in, a run that ends prints
\* what the run over the sorted paths prints, which the files' contents
\* alone determine.
C7_OrderIndependent ==
    pc = "exit" /\ argv_len = 2 => stdout = OutputOf(Candidates)

\* A run that took the files in another order than the sorted one, both
\* with findings.
C7_Witness ==
    /\ pc = "exit"
    /\ Len(results) = 2
    /\ StrLess(results[2].file_path, results[1].file_path)
    /\ results[1].items # <<>>
    /\ results[2].items # <<>>

\* C8: once the walk is over, a definition's line has one S012 finding when
\* at least one of its defaults is a list, dict or set literal and none
\* otherwise, and there is no other S012 finding.
C8_OneS012PerDefinition ==
    WalkOver =>
        /\ \A def \in FunctionDefsIn(<<tree>>) :
              CountAt(ast_items, def.lineno, S012)
                 = IF MutableDefaults(def) > 0 THEN 1 ELSE 0
        /\ \A k \in DOMAIN ast_items :
              ast_items[k].code = S012 =>
                  \E def \in FunctionDefsIn(<<tree>>) :
                      def.lineno = ast_items[k].line_number

\* A definition with two mutable defaults has been visited.
C8_Witness ==
    /\ WalkOver
    /\ \E def \in FunctionDefsIn(<<tree>>) :
          /\ MutableDefaults(def) >= 2
          /\ CountAt(ast_items, def.lineno, S012) = 1

\* C9: the codes of what find_issues_for_line returns ascend strictly, and
\* so do the codes of a file's line findings at any one line.
C9_CodeUniqueSorted ==
    /\ \A k \in 1..(Len(issues) - 1) :
          StrLess(issues[k].code, issues[k + 1].code)
    /\ pc \in {"for_line", "parse"} =>
          \A k \in 1..(Len(items) - 1) :
              \/ items[k].line_number < items[k + 1].line_number
              \/ /\ items[k].line_number = items[k + 1].line_number
                 /\ StrLess(items[k].code, items[k + 1].code)

\* A line with S006, which is found before S003, and S003.
C9_Witness ==
    /\ \E k \in DOMAIN issues : issues[k].code = S006
    /\ \E k \in DOMAIN issues : issues[k].code = S003

\* C10: the traversal of a function's body gives every assignment the body
\* owns one S011 finding per name occurrence in its targets that fails the
\* snake check.
C10_OneS011PerBoundName ==
    pc = "walk" =>
        \A F \in FunctionDefsIn(<<tree>>) :
        \A stmt \in OwnedAssignments(F.body) :
            CountAt(s011_items(file_path, F), stmt.lineno, S011)
               = NonSnakeOccurrences(stmt)

=============================================================================
